---- MODULE Spec2Model ----
(***************************************************************************)
(* Model of the ha_lumagen integration: the event-driven coordinator       *)
(* (coordinator.py) together with the command relay of the remote, switch  *)
(* and select platforms.  The device manager and its dispatcher are the    *)
(* environment: they change their fields and deliver named events.         *)
(***************************************************************************)
EXTENDS Naturals, Sequences, FiniteSets

\* ------------------------------------------------------------------ bounds
MaxEvents == 2
MaxShutdowns == 2
MaxLabels == 3
MaxBatch == 2
MaxRelayEvents == 1
MaxSetups == 2

\* ------------------------------------------------------- program constants
REFRESH_DELAY == 5
SETTLE_DELAY == 1

None == "None"
STANDBY == "STANDBY"
ACTIVE == "ACTIVE"
CONNECTED == "CONNECTED"
DISCONNECTED == "DISCONNECTED"

DeviceStatus == {STANDBY, ACTIVE}
ConnectionStatus == {CONNECTED, DISCONNECTED}
DeviceInfos == {"info_a"}

CONNECTION_STATE == "connection_state"
DEVICE_STATUS == "device_status"

\* the names handled through _create_event_handler / _on_device_event
AttrEvents ==
    {"input_labels", "physical_input_selected", "current_source_content_aspect",
     "detected_source_aspect", "source_mode", "source_vertical_rate",
     "source_dynamic_range", "is_alive"}

EventNames == {DEVICE_STATUS} \cup AttrEvents \cup {CONNECTION_STATE}

\* Faulty variant: is_alive recorded twice, connection_state not at all
ListenerOrder_m ==
    <<"device_status", "input_labels", "physical_input_selected",
      "current_source_content_aspect", "detected_source_aspect", "source_mode",
      "source_vertical_rate", "source_dynamic_range", "is_alive", "is_alive">>

\* the order in which _setup_event_listeners registers and records the pairs
ListenerOrder ==
    <<"device_status", "input_labels", "physical_input_selected",
      "current_source_content_aspect", "detected_source_aspect", "source_mode",
      "source_vertical_rate", "source_dynamic_range", "is_alive",
      "connection_state">>

VARIABLES
    dm,               \* device manager accessors: device_info, is_connected, is_alive, device_status
    source_list,      \* device_manager.source_list: <<"None">>-tagged or a list of labels
    data,             \* coordinator.data: {} (None) or {snapshot}
    registered,       \* event names whose coordinator handler is registered on the dispatcher
    event_listeners,  \* coordinator._event_listeners (names of the recorded pairs)
    hasUnregister,    \* hasattr(dispatcher, 'unregister_listener')
    ready,            \* handler coroutines created and not yet run (loop FIFO)
    sleepers,         \* coroutines suspended in asyncio.sleep or in a device command
    shut,             \* async_shutdown: pc, calls begun, close calls, unregister calls
    hist,             \* history: counters of deliveries, publications, device commands
    refreshed,        \* result of the last _async_update_data call with the fields it read
    remote,           \* LumagenRemoteEntity.async_send_command in progress / last request
    power,            \* last power request (remote or switch) and the switch's optimistic state
    select,           \* last _select_input_source call
    consumer,         \* last entity property read: which, and whether it raised
    entry             \* the config entry: setup / unload position, hass.data[DOMAIN], managers open

coordVars == <<dm, data, registered, event_listeners, hasUnregister, ready, sleepers,
               shut, hist, refreshed>>
cmdVars == <<source_list, remote, power, select, consumer, entry>>
relayVars == <<source_list, remote, select, consumer, entry>>
vars == <<dm, source_list, data, registered, event_listeners, hasUnregister, ready,
          sleepers, shut, hist, refreshed, remote, power, select, consumer, entry>>

\* ------------------------------------------------------------ snapshot
LumagenData(di, ic, ia, ds) ==
    [device_info |-> di, is_connected |-> ic, is_alive |-> ia, device_status |-> ds]

\* Faulty variant: a partial snapshot, the device info left out
ReadDeviceManager_m(d) ==
    LumagenData(None, d.is_connected, d.is_alive, d.device_status)

\* the snapshot built from the device manager's current accessors
ReadDeviceManager(d) ==
    LumagenData(d.device_info, d.is_connected, d.is_alive, d.device_status)

TheData == CHOOSE s \in data : TRUE

\* an event payload is a dict, modelled as a set of <<key, value>> pairs;
\* event_data.get(key) is the key's value, None when the payload lacks the key
\* Faulty variant: a missing field read as the value that triggers the side effect
PayloadGet_m(payload, key) ==
    IF \E p \in payload : p[1] = key
    THEN (CHOOSE p \in payload : p[1] = key)[2]
    ELSE IF key = "state" THEN CONNECTED ELSE ACTIVE

PayloadGet(payload, key) ==
    IF \E p \in payload : p[1] = key
    THEN (CHOOSE p \in payload : p[1] = key)[2]
    ELSE None

Payload(key, v) == {<<key, v>>}
NoPayload == {}

Payloads(name) ==
    IF name = DEVICE_STATUS THEN {Payload("value", v) : v \in DeviceStatus} \cup {NoPayload}
    ELSE IF name = CONNECTION_STATE
         THEN {Payload("state", c) : c \in ConnectionStatus} \cup {NoPayload}
    ELSE {Payload("value", "x"), NoPayload}

RangeOf(s) == {s[i] : i \in 1..Len(s)}
RemoveAt(s, i) == [j \in 1..(Len(s) - 1) |-> IF j < i THEN s[j] ELSE s[j + 1]]

\* ------------------------------------------------------------ dispatcher
HandlerKind(name) ==
    IF name = DEVICE_STATUS THEN "power"
    ELSE IF name = CONNECTION_STATE THEN "connection"
    ELSE "attr"

\* history of connection_state deliveries: a CONNECTED event is a transition
\* unless the previous connection_state event was CONNECTED too
NoteDelivery(h, name, payload) ==
    [h EXCEPT
        !.delivered = @ + 1,
        !.conn_transitions =
            IF name = CONNECTION_STATE /\ PayloadGet(payload, "state") = CONNECTED
               /\ h.last_conn # CONNECTED
            THEN @ + 1 ELSE @,
        !.last_conn = IF name = CONNECTION_STATE THEN PayloadGet(payload, "state") ELSE @]

\* the dispatcher invokes the listener registered for the event: the lambdas of
\* _setup_event_listeners create a task, _handle_connection_state is a coroutine
DispatchFrom(h, name, payload) ==
    /\ h.budget > 0
    /\ IF name \in registered
       THEN /\ ready' = Append(ready, [kind |-> HandlerKind(name), value |-> payload])
            /\ hist' = NoteDelivery([h EXCEPT !.budget = @ - 1], name, payload)
       ELSE /\ ready' = ready
            /\ hist' = [h EXCEPT !.budget = @ - 1]

Dispatch(name, payload) == DispatchFrom(hist, name, payload)

\* history of the device's power-ons: a change from STANDBY to ACTIVE, reported to
\* a registered handler, while the published snapshot says STANDBY
NotePowerOn(h, s) ==
    [h EXCEPT !.power_ons =
        IF /\ s = ACTIVE
           /\ dm.device_status = STANDBY
           /\ DEVICE_STATUS \in registered
           /\ data # {}
           /\ \A snapshot \in data : snapshot.device_status = STANDBY
        THEN @ + 1 ELSE @]

\* ----------------------------------------------- device manager (environment)
DmStatusChange(s) ==
    /\ s # dm.device_status
    /\ dm' = [dm EXCEPT !.device_status = s]
    /\ DispatchFrom(NotePowerOn(hist, s), DEVICE_STATUS, Payload("value", s))
    /\ refreshed' = {}
    /\ UNCHANGED <<data, registered, event_listeners, hasUnregister, sleepers, shut, cmdVars>>

DmAliveChange(b) ==
    /\ b # dm.is_alive
    /\ dm' = [dm EXCEPT !.is_alive = b]
    /\ Dispatch("is_alive", Payload("value", "x"))
    /\ refreshed' = {}
    /\ UNCHANGED <<data, registered, event_listeners, hasUnregister, sleepers, shut, cmdVars>>

DmConnectionChange(c) ==
    /\ (c = CONNECTED) # dm.is_connected
    /\ dm' = [dm EXCEPT !.is_connected = (c = CONNECTED)]
    /\ Dispatch(CONNECTION_STATE, Payload("state", c))
    /\ refreshed' = {}
    /\ UNCHANGED <<data, registered, event_listeners, hasUnregister, sleepers, shut, cmdVars>>

DmInfoChange(name, di) ==
    /\ name \in AttrEvents \ {"is_alive"}
    /\ di # dm.device_info
    /\ dm' = [dm EXCEPT !.device_info = di]
    /\ Dispatch(name, Payload("value", "x"))
    /\ refreshed' = {}
    /\ UNCHANGED <<data, registered, event_listeners, hasUnregister, sleepers, shut, cmdVars>>

\* a redundant or malformed notification: any name, any payload, no field change
DeliverEvent(name, payload) ==
    /\ name \in registered
    /\ payload \in Payloads(name)
    /\ Dispatch(name, payload)
    /\ refreshed' = {}
    /\ UNCHANGED <<dm, data, registered, event_listeners, hasUnregister, sleepers, shut, cmdVars>>

\* ------------------------------------------------------------ coordinator
\* async_set_updated_data(new_data), with the history of who published
\* LumagenPowerSwitch._handle_coordinator_update: every publication notifies the
\* entities, and the switch then forgets its optimistic state
handle_coordinator_update(sw) == [sw EXCEPT !.optimistic = {}]

\* the switch observes a publication: its update callback runs, and the command it
\* issued (if any) is no longer waiting for a snapshot
Observe(sw) == [handle_coordinator_update(sw) EXCEPT !.switch = None]

\* (writer: the handler kind; reported: the status its event reported, if any)
Publish(h, snapshot, writer, reported) ==
    /\ data' = {snapshot}
    /\ power' = Observe(power)
    /\ hist' = [h EXCEPT
            !.published = @ + 1,
            !.ran_after_shutdown = @ \/ shut.begun > 0,
            !.last_writer = writer,
            !.last_reported = reported]

\* Faulty variant: the loop waits for a command that is being awaited
LoopBlocked_m(tasks) == \E i \in 1..Len(tasks) : tasks[i].pc = "call"

\* every handler is a task of its own (asyncio.create_task): a coroutine awaiting
\* a device command suspends only itself, the loop keeps running the others
LoopBlocked(tasks) == FALSE

\* a handler runs: noted when some device command is being awaited meanwhile
NoteRun(h) ==
    [h EXCEPT !.ran_during_call =
        @ \/ \E i \in 1..Len(sleepers) : sleepers[i].pc = "call"]

\* Faulty variant: the connectivity flag taken from the liveness accessor
on_device_event_m(d) ==
    LumagenData(d.device_info, d.is_alive, d.is_alive, d.device_status)

\* _on_device_event
on_device_event(d) == ReadDeviceManager(d)

RunAttrHandler ==
    /\ ready # <<>>
    /\ Head(ready).kind = "attr"
    /\ ~LoopBlocked(sleepers)
    /\ ready' = Tail(ready)
    /\ Publish(NoteRun(hist), on_device_event(dm), "attr", None)
    /\ refreshed' = {}
    /\ UNCHANGED <<dm, registered, event_listeners, hasUnregister, sleepers, shut, relayVars>>

\* _handle_power_state_change: old_status, the refresh condition, the snapshot
OldStatus == IF data = {} THEN None ELSE TheData.device_status

\* Faulty variant: the refresh scheduled on every ACTIVE report, whatever the old status
ShouldRefresh_m(old_status, new_status) == new_status = ACTIVE

\* Faulty variant: the refresh scheduled on every report that differs from the old status
ShouldRefresh_changed(old_status, new_status) ==
    old_status = STANDBY /\ new_status # STANDBY

ShouldRefresh(old_status, new_status) ==
    old_status = STANDBY /\ new_status = ACTIVE

\* Faulty variant: the status read back from the device manager
PowerSnapshot_m(d, new_status) ==
    LumagenData(d.device_info, d.is_connected, d.is_alive, d.device_status)

PowerSnapshot(d, new_status) ==
    LumagenData(d.device_info, d.is_connected, d.is_alive, new_status)

NewTask(kind) == [kind |-> kind, pc |-> "sleep", age |-> 0, late |-> FALSE]

RunPowerHandler ==
    /\ ready # <<>>
    /\ Head(ready).kind = "power"
    /\ ~LoopBlocked(sleepers)
    /\ LET new_status == PayloadGet(Head(ready).value, "value")
           isTransition == data # {} /\ TheData.device_status = STANDBY
                           /\ new_status = ACTIVE
       IN  /\ sleepers' = IF ShouldRefresh(OldStatus, new_status)
                          THEN Append(sleepers, NewTask("refresh"))
                          ELSE sleepers
           /\ Publish([NoteRun(hist) EXCEPT
                          !.transitions = IF isTransition THEN @ + 1 ELSE @],
                      PowerSnapshot(dm, new_status), "power",
                      PayloadGet(Head(ready).value, "value"))
    /\ ready' = Tail(ready)
    /\ refreshed' = {}
    /\ UNCHANGED <<dm, registered, event_listeners, hasUnregister, shut, relayVars>>

\* _handle_connection_state up to its first suspension
NeedsLabelFetch(state) == state = CONNECTED

\* Faulty variant: the connectivity flag taken from the liveness accessor
connection_snapshot_m(d) ==
    LumagenData(d.device_info, d.is_alive, d.is_alive, d.device_status)

\* the snapshot _handle_connection_state publishes: the accessors as they are then
connection_snapshot(d) ==
    LumagenData(d.device_info, d.is_connected, d.is_alive, d.device_status)

RunConnectionHandler ==
    /\ ready # <<>>
    /\ Head(ready).kind = "connection"
    /\ ~LoopBlocked(sleepers)
    /\ ready' = Tail(ready)
    /\ IF NeedsLabelFetch(PayloadGet(Head(ready).value, "state"))
       THEN /\ sleepers' = Append(sleepers, NewTask("conn"))
            /\ hist' = [hist EXCEPT !.ran_after_shutdown = @ \/ shut.begun > 0]
            /\ UNCHANGED <<data, power>>
       ELSE /\ Publish(NoteRun(hist), connection_snapshot(dm), "connection", None)
            /\ UNCHANGED sleepers
    /\ refreshed' = {}
    /\ UNCHANGED <<dm, registered, event_listeners, hasUnregister, shut, relayVars>>

\* ------------------------------------------------- suspended coroutines
\* asyncio.sleep(delay) has elapsed for the task
Delay(kind) == IF kind = "refresh" THEN REFRESH_DELAY ELSE SETTLE_DELAY
SleepElapsed(t) == t.age >= Delay(t.kind)

Sleeping(i) == sleepers[i].pc = "sleep"

\* one time unit passes: the loop is idle and no timer is due
Tick ==
    /\ ready = <<>>
    /\ \E i \in 1..Len(sleepers) : Sleeping(i)
    /\ \A i \in 1..Len(sleepers) : Sleeping(i) => ~SleepElapsed(sleepers[i])
    /\ sleepers' = [i \in 1..Len(sleepers) |->
                      IF Sleeping(i) THEN [sleepers[i] EXCEPT !.age = @ + 1]
                      ELSE sleepers[i]]
    /\ refreshed' = {}
    /\ UNCHANGED <<dm, data, registered, event_listeners, hasUnregister, ready, shut, hist, cmdVars>>

InCall(t) == [t EXCEPT !.pc = "call", !.age = 0, !.late = FALSE]

\* _delayed_refresh_on_power_on: the sleep is over, executor.get_all() is called
RefreshCall(i) ==
    /\ i \in 1..Len(sleepers)
    /\ sleepers[i].kind = "refresh"
    /\ Sleeping(i)
    /\ SleepElapsed(sleepers[i])
    /\ sleepers' = [sleepers EXCEPT ![i] = InCall(@)]
    /\ hist' = [hist EXCEPT
            !.get_all_calls = @ + 1,
            !.get_all_early = @ \/ sleepers[i].age < 5,
            !.get_all_cancelled = @ \/ sleepers[i].late]
    /\ refreshed' = {}
    /\ UNCHANGED <<dm, data, registered, event_listeners, hasUnregister, ready, shut, cmdVars>>

\* Faulty variant: the failure of the awaited command leaves the coroutine
Escapes_m(outcome) == outcome = "raise"

\* except Exception around the awaited command: its failure is logged, never raised
Escapes(outcome) == FALSE

\* history of a returning command: failures counted, escaped exceptions noted
NoteReturn(h, outcome) ==
    [h EXCEPT !.failures = IF outcome = "raise" THEN @ + 1 ELSE @,
              !.escaped = @ \/ Escapes(outcome)]

\* get_all returns or raises; the exception is caught and logged
RefreshReturn(i, outcome) ==
    /\ i \in 1..Len(sleepers)
    /\ sleepers[i].kind = "refresh"
    /\ sleepers[i].pc = "call"
    /\ outcome \in {"ok", "raise"}
    /\ sleepers' = RemoveAt(sleepers, i)
    /\ hist' = NoteReturn(hist, outcome)
    /\ refreshed' = {}
    /\ UNCHANGED <<dm, data, registered, event_listeners, hasUnregister, ready, shut, cmdVars>>

\* the keyword arguments of the call executor.get_labels(get_all=False)
get_labels_kwargs == {"get_all"}

\* _handle_connection_state: the settle sleep is over, executor.get_labels is called
LabelFetchCall(i) ==
    /\ i \in 1..Len(sleepers)
    /\ sleepers[i].kind = "conn"
    /\ Sleeping(i)
    /\ SleepElapsed(sleepers[i])
    /\ sleepers' = [sleepers EXCEPT ![i] = InCall(@)]
    /\ hist' = [hist EXCEPT
            !.get_labels_calls = @ + 1,
            !.get_labels_early = @ \/ sleepers[i].age < 1,
            !.get_labels_cancelled = @ \/ sleepers[i].late,
            !.get_labels_passed = @ \cup get_labels_kwargs,
            !.ran_after_shutdown = @ \/ shut.begun > 0]
    /\ refreshed' = {}
    /\ UNCHANGED <<dm, data, registered, event_listeners, hasUnregister, ready, shut, cmdVars>>

\* Faulty variant: the publication skipped when the label fetch raised
PublishesAfterFetch_m(outcome) == outcome = "ok"

\* get_labels returns or raises (caught); the handler publishes either way
PublishesAfterFetch(outcome) == TRUE

LabelFetchReturn(i, outcome) ==
    /\ i \in 1..Len(sleepers)
    /\ sleepers[i].kind = "conn"
    /\ sleepers[i].pc = "call"
    /\ outcome \in {"ok", "raise"}
    /\ sleepers' = RemoveAt(sleepers, i)
    /\ IF PublishesAfterFetch(outcome) /\ ~Escapes(outcome)
       THEN Publish(NoteReturn(hist, outcome), connection_snapshot(dm), "connection", None)
       ELSE /\ hist' = NoteReturn(hist, outcome)
            /\ UNCHANGED <<data, power>>
    /\ refreshed' = {}
    /\ UNCHANGED <<dm, registered, event_listeners, hasUnregister, ready, shut, relayVars>>

\* ------------------------------------------------------------ manual refresh
\* Faulty variant: UpdateFailed raised while the device manager is not connected
async_update_data_m(d) == [raised |-> ~d.is_connected, value |-> ReadDeviceManager(d)]

\* _async_update_data: never raises, returns the device manager's current values
async_update_data(d) == [raised |-> FALSE, value |-> ReadDeviceManager(d)]

\* the base coordinator's refresh stores the returned snapshot as coordinator.data
RefreshOnce ==
    /\ LET r == async_update_data(dm)
       IN  /\ refreshed' = {[raised |-> r.raised, value |-> r.value, read |-> dm]}
           /\ data' = IF r.raised THEN data ELSE {r.value}
           /\ power' = IF r.raised THEN power ELSE Observe(power)
           /\ hist' = [hist EXCEPT !.last_writer = IF r.raised THEN @ ELSE "refresh",
                                   !.last_reported = IF r.raised THEN @ ELSE None]
    /\ UNCHANGED <<dm, registered, event_listeners, hasUnregister, ready, sleepers, shut,
                   relayVars>>

\* ------------------------------------------------------------ shutdown
\* _cleanup_event_listeners: the pairs unregistered, given the pair (if any) whose
\* unregister_listener call raises; nothing when the dispatcher has no such method
CleanupCalls(listeners, supported) == IF supported THEN RangeOf(listeners) ELSE {}
CleanupList(listeners, supported) == IF supported THEN <<>> ELSE listeners

\* async_shutdown closes whenever device_manager is set, which it always is
ShutdownCloses(begun) == TRUE
\* Faulty variant: the failure of close() reaches the caller
ShutdownRaises_m(outcome) == outcome = "raise"

\* the exception of close() is caught
ShutdownRaises(outcome) == FALSE

ShutdownBeginStep(failing) ==
    /\ shut.pc = "idle"
    /\ shut.begun < MaxShutdowns
    /\ failing \in {None} \cup EventNames
    /\ LET calls == CleanupCalls(event_listeners, hasUnregister)
       IN  /\ failing # None => failing \in calls
           /\ registered' = registered \ (calls \ {failing})
           /\ event_listeners' = CleanupList(event_listeners, hasUnregister)
           /\ shut' = [shut EXCEPT
                  !.pc = IF ShutdownCloses(shut.begun) THEN "closing" ELSE "idle",
                  !.begun = @ + 1,
                  !.close_calls = IF ShutdownCloses(shut.begun) THEN @ + 1 ELSE @,
                  !.failed = IF failing = None THEN @ ELSE @ \cup {failing},
                  !.unregistered = [n \in EventNames |->
                                      IF n \in calls THEN @[n] + 1 ELSE @[n]]]
    /\ sleepers' = [i \in 1..Len(sleepers) |->
                      IF Sleeping(i)
                         /\ sleepers[i].age < (IF sleepers[i].kind = "refresh" THEN 5 ELSE 1)
                      THEN [sleepers[i] EXCEPT !.late = TRUE]
                      ELSE sleepers[i]]
    /\ refreshed' = {}

\* async_shutdown up to its await of close()
ShutdownBegin(failing) ==
    /\ ShutdownBeginStep(failing)
    /\ UNCHANGED <<dm, data, hasUnregister, ready, hist, cmdVars>>

ShutdownEndStep(outcome) ==
    /\ shut.pc = "closing"
    /\ outcome \in {"ok", "raise"}
    /\ shut' = [shut EXCEPT !.pc = "idle",
                            !.raised = @ \/ ShutdownRaises(outcome)]
    /\ refreshed' = {}

\* close() returns or raises, and async_shutdown returns
ShutdownEnd(outcome) ==
    /\ ShutdownEndStep(outcome)
    /\ UNCHANGED <<dm, data, registered, event_listeners, hasUnregister, ready, sleepers, hist, cmdVars>>

\* ------------------------------------------------------------ specification
InitHist ==
    [budget |-> MaxEvents, delivered |-> 0, published |-> 0, transitions |-> 0,
     power_ons |-> 0,
     get_all_calls |-> 0, get_all_early |-> FALSE, get_all_cancelled |-> FALSE,
     get_labels_calls |-> 0, get_labels_early |-> FALSE,
     get_labels_cancelled |-> FALSE, get_labels_passed |-> {},
     conn_transitions |-> 0, last_conn |-> None, failures |-> 0, escaped |-> FALSE,
     ran_after_shutdown |-> FALSE, ran_during_call |-> FALSE, last_writer |-> None, last_reported |-> None]

\* async_shutdown not called yet: no close, no unregister call made or failed
IdleShut ==
    [pc |-> "idle", begun |-> 0, close_calls |-> 0, raised |-> FALSE,
     unregistered |-> [n \in EventNames |-> 0], failed |-> {}]

\* the one config entry of the model
ENTRY_ID == "entry_1"

\* the entry before async_setup_entry is first called
NewEntry ==
    [pc |-> "new", registry |-> {}, result |-> None, unload |-> None, setups |-> 0,
     open_managers |-> 0, coordinators |-> 0, shutdowns |-> 0]

\* async_setup_entry just after LumagenCoordinator(...) returned
ConstructedEntry ==
    [NewEntry EXCEPT !.pc = "refresh", !.setups = 1, !.open_managers = 1,
                     !.coordinators = 1]

\* async_setup_entry returned True
LoadedEntry ==
    [ConstructedEntry EXCEPT !.pc = "loaded", !.registry = {ENTRY_ID}, !.result = "ok"]

IdleRemote ==
    [pc |-> "idle", requested |-> FALSE, start_status |-> None, batch |-> <<>>,
     next |-> 1, sent |-> <<>>, sent_inactive |-> FALSE, raised |-> FALSE]

IdlePower ==
    [pc |-> "idle", cmd |-> None, calls |-> 0, raised |-> FALSE, optimistic |-> {},
     switch |-> None, outcome |-> None]

\* no command has been requested yet; the source-label list is still empty
InitCmd ==
    /\ source_list = {<<>>}
    /\ remote = IdleRemote
    /\ power = IdlePower
    /\ select = {}
    /\ consumer = {}

\* the state after LumagenCoordinator.__init__: listeners registered and recorded,
\* no data yet; async_setup_entry constructs it only with a connected device manager
InitCoord ==
    /\ dm \in [device_info : {None} \cup DeviceInfos, is_connected : {TRUE},
               is_alive : BOOLEAN, device_status : DeviceStatus,
               logical_input : {{}}]
    /\ entry = ConstructedEntry
    /\ data = {}
    /\ registered = EventNames
    /\ event_listeners = ListenerOrder
    /\ hasUnregister \in BOOLEAN
    /\ ready = <<>>
    /\ sleepers = <<>>
    /\ shut = IdleShut
    /\ hist = InitHist
    /\ refreshed = {}

Init == InitCoord /\ InitCmd

\* the coordinator while it is live: events, handlers, timers, manual refresh
Next ==
    \/ \E s \in DeviceStatus : DmStatusChange(s)
    \/ \E b \in BOOLEAN : DmAliveChange(b)
    \/ \E c \in ConnectionStatus : DmConnectionChange(c)
    \/ \E n \in AttrEvents, di \in DeviceInfos : DmInfoChange(n, di)
    \/ \E n \in EventNames : \E p \in Payloads(n) : DeliverEvent(n, p)
    \/ RunAttrHandler
    \/ RunPowerHandler
    \/ RunConnectionHandler
    \/ Tick
    \/ \E i \in 1..MaxEvents : RefreshCall(i)
    \/ \E i \in 1..MaxEvents, o \in {"ok", "raise"} : RefreshReturn(i, o)
    \/ \E i \in 1..MaxEvents : LabelFetchCall(i)
    \/ \E i \in 1..MaxEvents, o \in {"ok", "raise"} : LabelFetchReturn(i, o)
    \/ RefreshOnce

Spec == Init /\ [][Next]_vars

\* the coordinator through shutdown: notifications of every handler kind, the
\* handlers and timers, and async_shutdown called up to MaxShutdowns times
ShutdownEvents == {DEVICE_STATUS, "is_alive", CONNECTION_STATE}
UnregisterFailures == {None} \cup ShutdownEvents

NextShutdown ==
    \/ \E n \in ShutdownEvents : \E p \in Payloads(n) : DeliverEvent(n, p)
    \/ RunAttrHandler
    \/ RunPowerHandler
    \/ RunConnectionHandler
    \/ Tick
    \/ \E i \in 1..MaxEvents : RefreshCall(i)
    \/ \E i \in 1..MaxEvents, o \in {"ok", "raise"} : RefreshReturn(i, o)
    \/ \E i \in 1..MaxEvents : LabelFetchCall(i)
    \/ \E i \in 1..MaxEvents, o \in {"ok", "raise"} : LabelFetchReturn(i, o)
    \/ RefreshOnce
    \/ \E f \in UnregisterFailures : ShutdownBegin(f)
    \/ \E o \in {"ok", "raise"} : ShutdownEnd(o)

\* shutdown is studied from a device manager with info and liveness already known
InitShutdown ==
    /\ Init
    /\ dm.device_info = "info_a"
    /\ dm.is_alive

SpecShutdown == InitShutdown /\ [][NextShutdown]_vars

\* the connection handler alone, with the loop's scheduling: every ready handler is
\* run, time passes, and an awaited device command returns or raises
NextConn ==
    \/ \E c \in ConnectionStatus : DmConnectionChange(c)
    \/ \E b \in BOOLEAN : DmAliveChange(b)
    \/ \E p \in Payloads(CONNECTION_STATE) : DeliverEvent(CONNECTION_STATE, p)
    \/ RunAttrHandler
    \/ RunConnectionHandler
    \/ Tick
    \/ \E i \in 1..MaxEvents : LabelFetchCall(i)
    \/ \E i \in 1..MaxEvents, o \in {"ok", "raise"} : LabelFetchReturn(i, o)

LoopFairness ==
    /\ WF_vars(RunAttrHandler)
    /\ WF_vars(RunConnectionHandler)
    /\ WF_vars(Tick)
    /\ WF_vars(\E i \in 1..MaxEvents : LabelFetchCall(i))
    /\ WF_vars(\E i \in 1..MaxEvents, o \in {"ok", "raise"} : LabelFetchReturn(i, o))

SpecConn == Init /\ [][NextConn]_vars /\ LoopFairness

\* the coordinator after its first refresh, with device commands that may never
\* return: the loop runs every ready handler, time passes and due commands are
\* called, but nothing makes an awaited command return
InitHang ==
    /\ InitCoord
    /\ dm.device_info = "info_a"
    /\ hasUnregister
    /\ InitCmd

NextHang ==
    \/ \E n \in ShutdownEvents : \E p \in Payloads(n) : DeliverEvent(n, p)
    \/ RunAttrHandler
    \/ RunPowerHandler
    \/ RunConnectionHandler
    \/ Tick
    \/ RefreshOnce
    \/ \E i \in 1..MaxEvents : RefreshCall(i)
    \/ \E i \in 1..MaxEvents, o \in {"ok", "raise"} : RefreshReturn(i, o)
    \/ \E i \in 1..MaxEvents : LabelFetchCall(i)
    \/ \E i \in 1..MaxEvents, o \in {"ok", "raise"} : LabelFetchReturn(i, o)

HangFairness ==
    /\ WF_vars(RunAttrHandler)
    /\ WF_vars(RunPowerHandler)
    /\ WF_vars(RunConnectionHandler)
    /\ WF_vars(Tick)
    /\ WF_vars(\E i \in 1..MaxEvents : RefreshCall(i))
    /\ WF_vars(\E i \in 1..MaxEvents : LabelFetchCall(i))

SpecHang == InitHang /\ [][NextHang]_vars /\ HangFairness

\* ------------------------------------------------------------ input selection
Labels == {"HDMI1", "HDMI2", "HDMI3"}

\* [f"Input {i}" for i in range(8)]
DefaultOptions ==
    {"Input 0", "Input 1", "Input 2", "Input 3", "Input 4", "Input 5", "Input 6",
     "Input 7"}

\* the options a caller may ask for: every label and the default names, which no
\* list holds
Options == Labels \cup DefaultOptions

\* _get_input_source_options: the device manager's labels when it has a non-empty
\* list, the default names otherwise (as a set: the order plays no part)
get_input_source_options(labels) ==
    IF labels # {} /\ (\A l \in labels : Len(l) > 0)
    THEN UNION {RangeOf(l) : l \in labels}
    ELSE DefaultOptions

\* DeviceInfo.logical_input: None ({}) or a number
LogicalInputs == {{}} \cup {{n} : n \in 0..MaxLabels}

RECURSIVE ListsUpTo(_)
ListsUpTo(n) ==
    IF n = 0 THEN {<<>>}
    ELSE LET shorter == ListsUpTo(n - 1)
         IN  shorter \cup {Append(l, x) : l \in {m \in shorter : Len(m) = n - 1}, x \in Labels}

\* list.index(x): the 0-based position of the first element equal to x
ListIndex(list, x) ==
    (CHOOSE i \in 1..Len(list) :
        list[i] = x /\ \A j \in 1..(i - 1) : list[j] # x) - 1

\* Faulty variant: the 0-based position sent as it is
select_input_source_m(list, option) ==
    IF option \in RangeOf(list)
    THEN <<ListIndex(list, option)>>
    ELSE <<>>

\* _select_input_source on a list: the indices passed to executor.input, in order
\* (ValueError of index() is caught: nothing is sent)
select_input_source(list, option) ==
    IF option \in RangeOf(list)
    THEN <<ListIndex(list, option) + 1>>
    ELSE <<>>

\* LumagenSelectEntity.async_select_option -> _select_input_source; without a list
\* (source_list None) index() is an attribute error, and a failing executor.input
\* propagates as well
SelectInputSource(option, outcome) ==
    /\ option \in Options
    /\ outcome \in {"ok", "raise"}
    /\ IF source_list = {}
       THEN /\ outcome = "ok"
            /\ select' = {[option |-> option, sent |-> <<>>, raised |-> TRUE]}
       ELSE LET list == CHOOSE l \in source_list : TRUE
                sent == select_input_source(list, option)
            IN  /\ sent = <<>> => outcome = "ok"
                /\ select' = {[option |-> option, sent |-> sent,
                               raised |-> (outcome = "raise")]}
    /\ consumer' = {}
    /\ UNCHANGED <<coordVars, entry, source_list, remote, power>>

\* the device answers a selection: the device manager writes the selected input
\* into its DeviceInfo object, in place, and dispatches the input event
DeviceReportsInput ==
    /\ dm.device_info # None
    /\ \E r \in select :
            /\ ~r.raised
            /\ Len(r.sent) = 1
            /\ dm' = [dm EXCEPT !.logical_input = {r.sent[1]}]
    /\ Dispatch("physical_input_selected", Payload("value", "x"))
    /\ refreshed' = {}
    /\ consumer' = {}
    /\ UNCHANGED <<data, registered, event_listeners, hasUnregister, sleepers, shut,
                   source_list, remote, power, select, entry>>

InitSelect ==
    /\ InitCoord
    /\ dm.device_info = "info_a"
    /\ dm.is_alive
    /\ dm.device_status = ACTIVE
    /\ hasUnregister
    /\ source_list \in {{}} \cup {{l} : l \in ListsUpTo(MaxLabels)}
    /\ remote = IdleRemote
    /\ power = IdlePower
    /\ select = {}
    /\ consumer = {}

\* ------------------------------------------------------------ entity reads
\* the sensors, with the device-info attribute each value_fn reads
SensorField ==
    [logical_input |-> "logical_input",
     physical_input |-> "physical_input",
     output_resolution |-> "output_horizontal_resolution",
     source_aspect_ratio |-> "current_source_content_aspect",
     source_dynamic_range |-> "source_dynamic_range",
     input_configuration |-> "active_input_config_number",
     output_cms |-> "active_output_cms",
     output_style |-> "active_output_style",
     model_name |-> "model_name",
     software_revision |-> "software_revision",
     model_number |-> "model_number",
     serial_number |-> "serial_number"]

SensorKeys == DOMAIN SensorField
SelectKeys == {"input_source", "source_aspect_ratio", "memory_bank"}

\* the two platforms are told apart by a prefix where their keys coincide
Sensors == {<<"sensor", k>> : k \in SensorKeys}
Selects == {<<"select", k>> : k \in SelectKeys}
Entities == Sensors \cup Selects \cup {<<"switch", "power">>, <<"remote", "remote">>}

\* the result of a property read: raised, or a value ({} for None)
Raised == [raised |-> TRUE, value |-> {}]
Returned(v) == [raised |-> FALSE, value |-> v]

\* device_info.<field>: an attribute error when device_info is None
GetAttr(di, field) == IF di = None THEN Raised ELSE Returned({field})

\* device_info.<field> if device_info else None
IfInfo(di, field) == IF di # None THEN GetAttr(di, field) ELSE Returned({})

\* LumagenSensorEntity.native_value -> value_fn(coordinator.data)
sensor_native_value(key, snapshot) == IfInfo(snapshot.device_info, SensorField[key])

\* coordinator.data.device_info.logical_input: the snapshot holds the device
\* manager's DeviceInfo object itself, so the attribute is read from that object
info_logical_input(snapshot) ==
    IF snapshot.device_info = None THEN {} ELSE dm.logical_input

\* LumagenSelectEntity.current_option; logical_input is the info's current value
select_current_option(key, snapshot, list, logical_input) ==
    IF key = "input_source"
    THEN IF GetAttr(snapshot.device_info, "logical_input").raised THEN Raised
         ELSE IF logical_input # {} /\ list # {}
              THEN LET li == CHOOSE n \in logical_input : TRUE
                       l == CHOOSE x \in list : TRUE
                   IN  IF 0 <= li /\ li < Len(l) THEN Returned({l[li + 1]})
                       ELSE Returned({})
              ELSE Returned({})
    ELSE IF key = "source_aspect_ratio"
    THEN GetAttr(snapshot.device_info, "current_source_content_aspect")
    ELSE IfInfo(snapshot.device_info, "input_memory")

\* the device_info property every entity class defines
entity_device_info(snapshot) ==
    LET di == snapshot.device_info
        model == IfInfo(di, "model_name")
        sw == IfInfo(di, "software_revision")
        serial == IfInfo(di, "serial_number")
    IN  IF model.raised \/ sw.raised \/ serial.raised THEN Raised
        ELSE Returned({[model |-> IF di # None THEN model.value ELSE {"RadiancePro"},
                        sw_version |-> sw.value,
                        serial_number |-> serial.value]})

\* LumagenPowerSwitch.is_on, from the optimistic state or the snapshot
switch_is_on(snapshot, optimistic) ==
    IF optimistic # {} THEN Returned({TRUE \in optimistic})
    ELSE Returned({snapshot.device_status = ACTIVE})

\* an entity's value is read (native_value, current_option, is_on)
ReadValue(entity) ==
    /\ data # {}
    /\ entity \in Entities \ {<<"remote", "remote">>}
    /\ consumer' =
          {[entity |-> entity, property |-> "value",
            result |-> IF entity \in Sensors
                       THEN sensor_native_value(entity[2], TheData)
                       ELSE IF entity \in Selects
                       THEN select_current_option(entity[2], TheData, source_list,
                                                  info_logical_input(TheData))
                       ELSE switch_is_on(TheData, power.optimistic)]}
    /\ UNCHANGED <<coordVars, entry, source_list, remote, power, select>>

\* an entity's device description is read
ReadDeviceInfo(entity) ==
    /\ data # {}
    /\ entity \in Entities
    /\ consumer' = {[entity |-> entity, property |-> "device_info",
                     result |-> entity_device_info(TheData)]}
    /\ UNCHANGED <<coordVars, entry, source_list, remote, power, select>>

\* DIAGNOSTIC_SENSORS: the descriptions with entity_category DIAGNOSTIC
DiagnosticSensorKeys ==
    {"model_name", "software_revision", "model_number", "serial_number"}

\* Faulty variant: the power switch needs an ACTIVE device as well
entity_available_m(entity, last_update_success, snapshot) ==
    /\ last_update_success
    /\ snapshot.is_connected
    /\ ~(entity[1] = "sensor" /\ entity[2] \in DiagnosticSensorKeys) =>
            snapshot.device_status = ACTIVE

\* the available property of the four entity classes
entity_available(entity, last_update_success, snapshot) ==
    IF entity[1] = "sensor"
    THEN IF ~last_update_success THEN FALSE
         ELSE IF entity[2] \in DiagnosticSensorKeys THEN snapshot.is_connected
         ELSE snapshot.is_connected /\ snapshot.device_status = ACTIVE
    ELSE IF entity[1] = "select"
    THEN IF ~last_update_success THEN FALSE
         ELSE snapshot.is_connected /\ snapshot.device_status = ACTIVE
    ELSE IF entity[1] = "switch"
    THEN last_update_success /\ snapshot.is_connected
    ELSE /\ last_update_success
         /\ snapshot.is_connected
         /\ snapshot.device_status = ACTIVE

\* an entity's availability is read; last_update_success is the host
\* coordinator's flag at that moment
ReadAvailable(entity, last_update_success) ==
    /\ data # {}
    /\ entity \in Entities
    /\ last_update_success \in BOOLEAN
    /\ consumer' = {[entity |-> entity, property |-> "available",
                     last_update_success |-> last_update_success,
                     result |-> Returned({entity_available(entity, last_update_success,
                                                          TheData)})]}
    /\ UNCHANGED <<coordVars, entry, source_list, remote, power, select>>

\* the entities over a current snapshot, whatever the device manager held when it
\* was published
InitConsumer ==
    /\ dm \in [device_info : {None} \cup DeviceInfos, is_connected : BOOLEAN,
               is_alive : BOOLEAN, device_status : DeviceStatus,
               logical_input : LogicalInputs]
    /\ dm.device_info = None => dm.logical_input = {}
    /\ entry = LoadedEntry
    /\ data = {ReadDeviceManager(dm)}
    /\ registered = EventNames
    /\ event_listeners = ListenerOrder
    /\ hasUnregister = TRUE
    /\ ready = <<>>
    /\ sleepers = <<>>
    /\ shut = IdleShut
    /\ hist = [InitHist EXCEPT !.last_writer = "refresh"]
    /\ refreshed = {}
    /\ source_list \in {{}} \cup {{l} : l \in ListsUpTo(MaxLabels)}
    /\ remote = IdleRemote
    /\ power = IdlePower
    /\ select = {}
    /\ consumer = {}

NextConsumer ==
    \/ \E entity \in Entities : ReadValue(entity)
    \/ \E entity \in Entities : ReadDeviceInfo(entity)

SpecConsumer == InitConsumer /\ [][NextConsumer]_vars

\* availability of the entities over a current snapshot; the labels and the input
\* play no part in it
InitAvailable ==
    /\ InitConsumer
    /\ source_list = {}
    /\ dm.logical_input = {}

NextAvailable ==
    \E entity \in Entities, lus \in BOOLEAN : ReadAvailable(entity, lus)

SpecAvailable == InitAvailable /\ [][NextAvailable]_vars

\* input selection: requests, the device's reports, their publication, and reads
\* of the input-source select
NextSelect ==
    \/ \E option \in Options, o \in {"ok", "raise"} : SelectInputSource(option, o)
    \/ DeviceReportsInput
    \/ RunAttrHandler
    \/ ReadValue(<<"select", "input_source">>)

SpecSelect == InitSelect /\ [][NextSelect]_vars

\* ------------------------------------------------------------ remote and switch
\* COMMAND_MAP of remote.py
COMMAND_MAP ==
    [c \in {"up", "down", "left", "right", "menu", "enter", "exit", "back", "home",
            "ok", "info", "alt", "clear", "0", "1", "2", "3", "4", "5", "6", "7",
            "8", "9"} |->
        CASE c = "0" -> "zero" [] c = "1" -> "one" [] c = "2" -> "two"
          [] c = "3" -> "three" [] c = "4" -> "four" [] c = "5" -> "five"
          [] c = "6" -> "six" [] c = "7" -> "seven" [] c = "8" -> "eight"
          [] c = "9" -> "nine" [] OTHER -> c]

\* the commands a caller sends in the model: lower and upper case, a digit, an
\* unknown one
CommandInputs == {"MENU", "7", "bogus"}

\* str.lower on the command inputs
Lower(cmd) == IF cmd = "MENU" THEN "menu" ELSE cmd

\* the command lists a caller sends: up to n commands, none repeated
RECURSIVE BatchesUpTo(_)
BatchesUpTo(n) ==
    IF n = 0 THEN {<<>>}
    ELSE LET shorter == BatchesUpTo(n - 1)
             longest == {m \in shorter : Len(m) = n - 1}
         IN  shorter \cup
             UNION {{Append(l, x) : x \in CommandInputs \ RangeOf(l)} : l \in longest}

\* Faulty variant: the gate closed in STANDBY only
SendCommandAllowed_m(status) == status # STANDBY

LastStatus == IF data = {} THEN None ELSE TheData.device_status

\* the gate of async_send_command on the last published status
SendCommandAllowed(status) == status = ACTIVE

\* Faulty variant: an unknown command ends the loop
RunLoop_m(r, from, status) ==
    IF from > Len(r.batch)
    THEN [r EXCEPT !.pc = "idle", !.next = from]
    ELSE LET cmd_lower == Lower(r.batch[from])
         IN  IF cmd_lower \in DOMAIN COMMAND_MAP
             THEN [r EXCEPT !.pc = "call",
                            !.next = from,
                            !.sent = Append(@, COMMAND_MAP[cmd_lower]),
                            !.sent_inactive = @ \/ status # ACTIVE]
             ELSE [r EXCEPT !.pc = "idle", !.next = Len(r.batch) + 1]

\* the for loop from position from on, up to its next suspension: unknown
\* commands are skipped (logged), the first known one is called and awaited; the
\* loop ends when the list is exhausted
RECURSIVE RunLoop(_, _, _)
RunLoop(r, from, status) ==
    IF from > Len(r.batch)
    THEN [r EXCEPT !.pc = "idle", !.next = from]
    ELSE LET cmd_lower == Lower(r.batch[from])
         IN  IF cmd_lower \in DOMAIN COMMAND_MAP
             THEN [r EXCEPT !.pc = "call",
                            !.next = from,
                            !.sent = Append(@, COMMAND_MAP[cmd_lower]),
                            !.sent_inactive = @ \/ status # ACTIVE]
             ELSE RunLoop(r, from + 1, status)

\* async_send_command up to its first suspension (entities exist once data is set):
\* the gate, then the loop up to the first awaited call; next is the position in
\* command_list the loop has reached
SendCommand(batch) ==
    /\ remote.pc = "idle"
    /\ data # {}
    /\ batch \in BatchesUpTo(MaxBatch)
    /\ LET request == [pc |-> "idle",
                        requested |-> TRUE,
                        start_status |-> TheData.device_status,
                        batch |-> batch,
                        next |-> 1,
                        sent |-> <<>>,
                        sent_inactive |-> FALSE,
                        raised |-> FALSE]
       IN  remote' = IF SendCommandAllowed(TheData.device_status)
                     THEN RunLoop(request, 1, LastStatus)
                     ELSE request
    /\ UNCHANGED <<coordVars, entry, source_list, power, select, consumer>>

\* the command returns (then asyncio.sleep(0.1)) or raises (logged and re-raised)
RemoteReturn(outcome) ==
    /\ remote.pc = "call"
    /\ outcome \in {"ok", "raise"}
    /\ remote' = IF outcome = "ok"
                 THEN [remote EXCEPT !.pc = "sleep"]
                 ELSE [remote EXCEPT !.pc = "idle", !.raised = TRUE]
    /\ UNCHANGED <<coordVars, entry, source_list, power, select, consumer>>

\* the pause between commands is over: the loop goes on to its next suspension
RemoteWake ==
    /\ remote.pc = "sleep"
    /\ remote' = RunLoop(remote, remote.next + 1, LastStatus)
    /\ UNCHANGED <<coordVars, entry, source_list, power, select, consumer>>

\* the device-manager calls a power request makes, whatever the status is
PowerCalls(cmd, status) == 1

\* LumagenRemoteEntity.async_turn_on / async_turn_off: the call, re-raised on failure
RemotePower(cmd, outcome) ==
    /\ power.pc = "idle"
    /\ cmd \in {"power_on", "standby"}
    /\ outcome \in {"ok", "raise"}
    /\ power' = [power EXCEPT
            !.cmd = cmd,
            !.calls = PowerCalls(cmd, LastStatus),
            !.outcome = outcome,
            !.raised = (PowerCalls(cmd, LastStatus) > 0 /\ outcome = "raise")]
    /\ UNCHANGED <<coordVars, entry, source_list, remote, select, consumer>>

\* LumagenPowerSwitch.async_turn_on / async_turn_off up to the awaited call
SwitchPower(cmd) ==
    /\ power.pc = "idle"
    /\ cmd \in {"power_on", "standby"}
    /\ power' = [power EXCEPT
            !.pc = IF PowerCalls(cmd, LastStatus) > 0 THEN "await" ELSE "idle",
            !.cmd = cmd,
            !.switch = cmd,
            !.calls = PowerCalls(cmd, LastStatus),
            !.outcome = None,
            !.raised = FALSE]
    /\ UNCHANGED <<coordVars, entry, source_list, remote, select, consumer>>

\* Faulty variant: the commanded value assumed although the command failed
SwitchAfterFailure_m(sw) ==
    [sw EXCEPT !.pc = "idle", !.optimistic = {sw.cmd = "power_on"}, !.raised = TRUE]

\* the except branch of async_turn_on / async_turn_off: unset, log, re-raise
SwitchAfterFailure(sw) ==
    [sw EXCEPT !.pc = "idle", !.optimistic = {}, !.raised = TRUE]

\* the call returns: the optimistic state is set; or raises: it is unset, re-raised
SwitchReturn(outcome) ==
    /\ power.pc = "await"
    /\ outcome \in {"ok", "raise"}
    /\ power' = [(IF outcome = "ok"
                  THEN [power EXCEPT !.pc = "idle",
                                     !.optimistic = {power.cmd = "power_on"}]
                  ELSE SwitchAfterFailure(power))
                 EXCEPT !.outcome = outcome]
    /\ UNCHANGED <<coordVars, entry, source_list, remote, select, consumer>>

\* the platforms are set up after the first refresh, over a known device; the
\* relay is studied with MaxRelayEvents device_status notifications
InitRelay ==
    /\ dm \in [device_info : {"info_a"}, is_connected : {TRUE}, is_alive : {TRUE},
               device_status : DeviceStatus, logical_input : {{}}]
    /\ entry = LoadedEntry
    /\ data = {ReadDeviceManager(dm)}
    /\ registered = EventNames
    /\ event_listeners = ListenerOrder
    /\ hasUnregister = TRUE
    /\ ready = <<>>
    /\ sleepers = <<>>
    /\ shut = IdleShut
    /\ hist = [InitHist EXCEPT !.budget = MaxRelayEvents, !.last_writer = "refresh"]
    /\ refreshed = {}
    /\ InitCmd

NextRelay ==
    \/ \E p \in Payloads(DEVICE_STATUS) : DeliverEvent(DEVICE_STATUS, p)
    \/ RunPowerHandler
    \/ Tick
    \/ \E i \in 1..MaxRelayEvents : RefreshCall(i)
    \/ \E i \in 1..MaxRelayEvents, o \in {"ok", "raise"} : RefreshReturn(i, o)
    \/ \E batch \in BatchesUpTo(MaxBatch) : SendCommand(batch)
    \/ \E o \in {"ok", "raise"} : RemoteReturn(o)
    \/ RemoteWake
    \/ \E cmd \in {"power_on", "standby"}, o \in {"ok", "raise"} : RemotePower(cmd, o)
    \/ \E cmd \in {"power_on", "standby"} : SwitchPower(cmd)
    \/ \E o \in {"ok", "raise"} : SwitchReturn(o)

SpecRelay == InitRelay /\ [][NextRelay]_vars

\* ------------------------------------------------------------ entry setup and unload
\* async_setup_entry is called (again, after a not-ready failure): a DeviceManager
\* is created and open() awaited
SetupBegin ==
    /\ entry.pc = "new" \/ (entry.pc = "failed" /\ entry.result = "not_ready")
    /\ entry.setups < MaxSetups
    /\ entry' = [entry EXCEPT !.pc = "open", !.setups = @ + 1, !.result = None]
    /\ UNCHANGED <<coordVars, source_list, remote, power, select, consumer>>

\* open() returns, and setup sleeps, or raises, and setup ends with
\* ConfigEntryNotReady
SetupOpened(outcome) ==
    /\ entry.pc = "open"
    /\ outcome \in {"ok", "raise"}
    /\ entry' = IF outcome = "ok"
                THEN [entry EXCEPT !.pc = "wait", !.open_managers = @ + 1]
                ELSE [entry EXCEPT !.pc = "failed", !.result = "not_ready"]
    /\ UNCHANGED <<coordVars, source_list, remote, power, select, consumer>>

\* the sleep is over: not connected ends setup with ConfigEntryNotReady; connected,
\* the coordinator is constructed (its listeners registered) and the first refresh
\* awaited
SetupWaited(connected, status) ==
    /\ entry.pc = "wait"
    /\ connected \in BOOLEAN
    /\ status \in DeviceStatus
    /\ dm' = [dm EXCEPT !.is_connected = connected, !.device_status = status]
    /\ IF connected
       THEN /\ registered' = EventNames
            /\ event_listeners' = ListenerOrder
            /\ entry' = [entry EXCEPT !.pc = "refresh", !.coordinators = @ + 1]
       ELSE /\ UNCHANGED <<registered, event_listeners>>
            /\ entry' = [entry EXCEPT !.pc = "failed", !.result = "not_ready"]
    /\ UNCHANGED <<data, hasUnregister, ready, sleepers, shut, hist, refreshed,
                   source_list, remote, power, select, consumer>>

\* the first refresh returns: the coordinator is stored under the entry id and the
\* platforms' setup awaited
SetupRefreshed ==
    /\ entry.pc = "refresh"
    /\ LET r == async_update_data(dm)
       IN  /\ refreshed' = {[raised |-> r.raised, value |-> r.value, read |-> dm]}
           /\ data' = IF r.raised THEN data ELSE {r.value}
           /\ hist' = [hist EXCEPT !.last_writer = IF r.raised THEN @ ELSE "refresh",
                                   !.last_reported = IF r.raised THEN @ ELSE None]
           /\ entry' = IF r.raised
                       THEN [entry EXCEPT !.pc = "failed", !.result = "not_ready"]
                       ELSE [entry EXCEPT !.pc = "forward",
                                          !.registry = @ \cup {ENTRY_ID}]
    /\ UNCHANGED <<dm, registered, event_listeners, hasUnregister, ready, sleepers, shut,
                   source_list, remote, power, select, consumer>>

\* async_forward_entry_setups returns, and setup returns True, or raises, and the
\* exception leaves setup
SetupForwarded(outcome) ==
    /\ entry.pc = "forward"
    /\ outcome \in {"ok", "raise"}
    /\ entry' = IF outcome = "ok"
                THEN [entry EXCEPT !.pc = "loaded", !.result = "ok"]
                ELSE [entry EXCEPT !.pc = "failed", !.result = "error"]
    /\ UNCHANGED <<coordVars, source_list, remote, power, select, consumer>>

\* async_unload_entry is called on the loaded entry: the platforms' unload is awaited
UnloadBegin ==
    /\ entry.pc = "loaded"
    /\ entry' = [entry EXCEPT !.pc = "unload_platforms", !.unload = None]
    /\ UNCHANGED <<coordVars, source_list, remote, power, select, consumer>>

\* async_unload_platforms returns: False ends the unload; True goes on into
\* coordinator.async_shutdown, up to its await of close()
UnloadPlatforms(unload_ok, failing) ==
    /\ entry.pc = "unload_platforms"
    /\ unload_ok \in BOOLEAN
    /\ IF unload_ok
       THEN /\ ShutdownBeginStep(failing)
            /\ entry' = [entry EXCEPT !.pc = "closing", !.shutdowns = @ + 1]
            /\ UNCHANGED <<dm, data, hasUnregister, ready, hist>>
       ELSE /\ failing = None
            /\ entry' = [entry EXCEPT !.pc = "loaded", !.unload = "failed"]
            /\ UNCHANGED coordVars
    /\ UNCHANGED <<source_list, remote, power, select, consumer>>

\* close() returns or raises, async_shutdown returns, the entry id is popped and
\* the unload returns True
UnloadClosed(outcome) ==
    /\ entry.pc = "closing"
    /\ ShutdownEndStep(outcome)
    /\ entry' = IF ShutdownRaises(outcome)
                THEN [entry EXCEPT !.pc = "loaded", !.unload = "raised"]
                ELSE [entry EXCEPT !.pc = "unloaded",
                                   !.unload = "ok",
                                   !.registry = @ \ {ENTRY_ID},
                                   !.open_managers = @ - 1]
    /\ UNCHANGED <<dm, data, registered, event_listeners, hasUnregister, ready, sleepers,
                   hist, source_list, remote, power, select, consumer>>

\* before the entry is set up: no device manager, no coordinator, nothing stored
InitEntry ==
    /\ dm = [device_info |-> None, is_connected |-> FALSE, is_alive |-> FALSE,
             device_status |-> STANDBY, logical_input |-> {}]
    /\ data = {}
    /\ registered = {}
    /\ event_listeners = <<>>
    /\ hasUnregister \in BOOLEAN
    /\ ready = <<>>
    /\ sleepers = <<>>
    /\ shut = IdleShut
    /\ hist = InitHist
    /\ refreshed = {}
    /\ InitCmd
    /\ entry = NewEntry

NextEntry ==
    \/ SetupBegin
    \/ \E o \in {"ok", "raise"} : SetupOpened(o)
    \/ \E c \in BOOLEAN, s \in DeviceStatus : SetupWaited(c, s)
    \/ SetupRefreshed
    \/ \E o \in {"ok", "raise"} : SetupForwarded(o)
    \/ UnloadBegin
    \/ \E ok \in BOOLEAN, f \in UnregisterFailures : UnloadPlatforms(ok, f)
    \/ \E o \in {"ok", "raise"} : UnloadClosed(o)

SpecEntry == InitEntry /\ [][NextEntry]_vars

\* ------------------------------------------------------------ properties
ConnTasks == {i \in 1..Len(sleepers) : sleepers[i].kind = "conn"}
RefreshSleeping == {i \in 1..Len(sleepers) : sleepers[i].kind = "refresh" /\ Sleeping(i)}

\* handlers created for a delivered event that have not published yet
PendingHandlers == Len(ready) + Cardinality(ConnTasks)

\* every handler created so far has completed
Quiescent == PendingHandlers = 0

\* C1: every event delivered to the coordinator yields exactly one publication:
\* at any moment the publications made plus the handlers still to publish equal
\* the events delivered, so N completed events have made exactly N publications.
C1_OnePublicationPerEvent ==
    hist.published + PendingHandlers = hist.delivered

C1_Witness ==
    /\ hist.delivered >= 2
    /\ Quiescent
    /\ hist.published = hist.delivered

\* C2 as stated: once every handler of a non-empty sequence of events has
\* completed, the current snapshot is the one freshly built from the device manager
C2_SnapshotIsFresh ==
    (hist.delivered > 0 /\ Quiescent) => data = {ReadDeviceManager(dm)}

\* C2 (amended): once every handler has completed, the current snapshot's
\* deviceInfo, isConnected and isAlive are the device manager's; its deviceStatus is
\* the device manager's too unless the last publication was made by a device_status
\* handler, in which case it is the value that event reported (None when absent)
C2_SnapshotFreshExceptReportedStatus ==
    (hist.delivered > 0 /\ Quiescent) =>
        /\ data # {}
        /\ TheData.device_info = dm.device_info
        /\ TheData.is_connected = dm.is_connected
        /\ TheData.is_alive = dm.is_alive
        /\ TheData.device_status =
              IF hist.last_writer = "power" THEN hist.last_reported
              ELSE dm.device_status

C2_Witness ==
    /\ hist.delivered > 0
    /\ Quiescent
    /\ hist.last_writer = "power"
    /\ data # {}
    /\ TheData.device_status # dm.device_status
    /\ TheData.is_alive = dm.is_alive

\* C3: each device_status ACTIVE event handled over a STANDBY snapshot schedules
\* one delayed refresh, which calls get_all once and not before 5 time units:
\* the get_all calls made plus the refreshes still asleep equal those transitions
C3_RefreshOncePerPowerOn ==
    /\ hist.get_all_calls + Cardinality(RefreshSleeping) = hist.transitions
    /\ ~hist.get_all_early

C3_Witness ==
    /\ hist.transitions >= 1
    /\ hist.get_all_calls = hist.transitions

\* C4: a delayed refresh whose delay had not elapsed when shutdown began never
\* calls get_all
C4_NoRefreshAfterShutdown ==
    ~hist.get_all_cancelled

\* C5: get_labels is called once per transition to CONNECTED and not before the
\* settle delay: never more often than CONNECTED events that followed another state
C5_OneFetchPerConnectedTransition ==
    /\ hist.get_labels_calls <= hist.conn_transitions
    /\ ~hist.get_labels_early

\* C6: two sequential shutdowns raise nothing, close the device manager at most
\* once and unregister no listener twice
C6_ShutdownIdempotent ==
    /\ ~shut.raised
    /\ shut.close_calls <= 1
    /\ \A n \in EventNames : shut.unregistered[n] <= 1

\* C7: once shutdown has begun no handler runs and no snapshot is published
C7_NoHandlerAfterShutdown ==
    ~hist.ran_after_shutdown

\* C8: the manual refresh never raises and returns the device manager's values as
\* they are at the call, also while disconnected or in standby
C8_RefreshReturnsCurrentValues ==
    \A r \in refreshed :
        /\ ~r.raised
        /\ r.value.is_connected = r.read.is_connected
        /\ r.value.is_alive = r.read.is_alive
        /\ r.value.device_status = r.read.device_status
        /\ r.value.device_info = r.read.device_info

C8_Witness ==
    \E r \in refreshed :
        /\ ~r.read.is_connected
        /\ r.read.device_status = STANDBY
        /\ ~r.raised
        /\ ~r.value.is_connected

TheList == CHOOSE l \in source_list : TRUE

\* C9: selecting a label of the source-label list sends exactly one selectInput,
\* with the label's (first) 0-based position plus one; selecting a label the list
\* does not hold sends nothing and raises nothing
C9_SelectByLabel ==
    \A r \in select :
        source_list # {} =>
            IF \E pos \in 0..(Len(TheList) - 1) : TheList[pos + 1] = r.option
            THEN \E pos \in 0..(Len(TheList) - 1) :
                    /\ TheList[pos + 1] = r.option
                    /\ \A before \in 0..(pos - 1) : TheList[before + 1] # r.option
                    /\ r.sent = <<pos + 1>>
            ELSE r.sent = <<>> /\ ~r.raised

C9_Witness ==
    \E r \in select :
        /\ source_list # {}
        /\ Len(TheList) = 3
        /\ TheList[2] = r.option
        /\ r.sent = <<2>>

\* C10: a send-command request made while the last published status is not ACTIVE
\* calls the device manager zero times, whatever its commands; a power-on or
\* standby request calls it exactly once, whatever the status
C10_CommandGating ==
    /\ (remote.requested /\ remote.start_status # ACTIVE) =>
            (remote.sent = <<>> /\ remote.pc = "idle")
    /\ power.cmd # None => power.calls = 1

C10_Witness ==
    /\ remote.requested
    /\ remote.start_status = STANDBY
    /\ Len(remote.batch) = 2
    /\ remote.sent = <<>>
    /\ power.cmd = "power_on"
    /\ LastStatus = STANDBY
    /\ power.calls = 1

\* a handler leaves the ready queue in this step
HandlerRuns == ready # <<>> /\ ready' = Tail(ready)

\* C11: the handler of every device_status event publishes, in its own run, a
\* snapshot whose deviceStatus is the value the event reported (None when absent),
\* whatever the old status; no get_all call is made in that run
C11_PowerPublishesReportedStatus ==
    [][(HandlerRuns /\ Head(ready).kind = "power") =>
          /\ hist'.published = hist.published + 1
          /\ data' # {}
          /\ \A s \in data' :
                /\ Head(ready).value = NoPayload => s.device_status = None
                /\ \A p \in Head(ready).value : p[1] = "value" => s.device_status = p[2]
          /\ hist'.get_all_calls = hist.get_all_calls]_vars

C11_Witness ==
    /\ hist.last_writer = "power"
    /\ hist.last_reported = ACTIVE
    /\ data # {}
    /\ TheData.device_status = ACTIVE
    /\ dm.device_status = STANDBY
    /\ RefreshSleeping # {}
    /\ \A i \in RefreshSleeping : sleepers[i].age = 0
    /\ hist.get_all_calls = 0

\* connection handlers created and not yet completed
ConnHandlers ==
    Cardinality({i \in 1..Len(ready) : ready[i].kind = "connection"})
        + Cardinality(ConnTasks)

\* C12: a connection handler completes by exactly one publication, of the device
\* manager's four accessors as they are at that moment, and every connection_state
\* event's handler does complete, whether get_labels returned or raised
C12_ConnectionEventPublishesOnce ==
    /\ [][ConnHandlers' < ConnHandlers =>
            /\ ConnHandlers' = ConnHandlers - 1
            /\ hist'.published = hist.published + 1
            /\ data' = {[device_info |-> dm'.device_info,
                          is_connected |-> dm'.is_connected,
                          is_alive |-> dm'.is_alive,
                          device_status |-> dm'.device_status]}]_vars
    /\ [][ConnHandlers' >= ConnHandlers =>
            (hist'.last_writer = "connection" => hist'.published = hist.published)]_vars
    /\ (ConnHandlers > 0) ~> (ConnHandlers = 0)

C12_Witness ==
    /\ hist.last_writer = "connection"
    /\ hist.failures >= 1
    /\ hist.get_labels_calls >= 1
    /\ ConnHandlers = 0
    /\ data = {ReadDeviceManager(dm)}
    /\ ~dm.is_alive

\* C13: a failing get_all or get_labels never leaves its coroutine; a failing
\* get_all publishes nothing and leaves the snapshot as it is, a failing get_labels
\* is followed by the usual publication of the device manager's connectivity and
\* status; and after a failure every event still yields one publication
C13_FetchFailuresContained ==
    /\ [](~hist.escaped
           /\ (hist.failures > 0 => hist.published + PendingHandlers = hist.delivered))
    /\ [][hist'.failures > hist.failures =>
            /\ ConnHandlers' = ConnHandlers =>
                    (data' = data /\ hist'.published = hist.published)
            /\ \A s \in data' :
                    \/ s \in data
                    \/ /\ s.is_connected = dm.is_connected
                       /\ s.device_status = dm.device_status]_vars

C13_Witness ==
    /\ hist.failures >= 1
    /\ hist.get_labels_calls >= 1
    /\ hist.get_all_calls = 0
    /\ hist.last_writer = "attr"
    /\ hist.delivered = 2
    /\ hist.published = 2
    /\ Quiescent

\* C14: the handler of an event whose payload lacks its field publishes once and
\* schedules nothing: no delayed refresh, no label fetch; for device_status the
\* published status is None
C14_MissingFieldIsNone ==
    [][(HandlerRuns /\ Head(ready).value = NoPayload) =>
          /\ hist'.published = hist.published + 1
          /\ sleepers' = sleepers
          /\ ~hist'.escaped
          /\ data' # {}
          /\ Head(ready).kind = "power" => \A s \in data' : s.device_status = None]_vars

C14_Witness ==
    /\ hist.last_writer = "power"
    /\ hist.last_reported = None
    /\ data # {}
    /\ TheData.device_status = None
    /\ dm.device_status = STANDBY
    /\ sleepers = <<>>
    /\ hist.published = hist.delivered

\* the event being handled is a device_status ACTIVE over a STANDBY snapshot
PowerOnCase ==
    /\ Head(ready).kind = "power"
    /\ data # {}
    /\ \A s \in data : s.device_status = STANDBY
    /\ Head(ready).value = {<<"value", ACTIVE>>}

\* the event being handled is a connection_state whose state is CONNECTED
ConnectedCase ==
    /\ Head(ready).kind = "connection"
    /\ Head(ready).value = {<<"state", CONNECTED>>}

\* a coroutine of the kind is suspended in this step
Suspends(kind) ==
    /\ Len(sleepers') = Len(sleepers) + 1
    /\ sleepers'[Len(sleepers')].kind = kind
    /\ sleepers'[Len(sleepers')].pc = "sleep"

\* C20 as stated: a handler schedules a delayed refresh exactly in the power-on
\* case; in every other case, events of other names included, it publishes and
\* schedules nothing
C20_OnlyPowerOnSchedules ==
    [][HandlerRuns =>
          IF PowerOnCase
          THEN Suspends("refresh") /\ hist'.published = hist.published + 1
          ELSE sleepers' = sleepers /\ hist'.published = hist.published + 1]_vars

\* C20 (amended): a handler schedules a delayed refresh exactly in the power-on
\* case; a connection_state CONNECTED handler suspends for the label fetch and
\* publishes after it; every other case publishes at once and schedules nothing
C20_OnlyPowerOnSchedulesRefresh ==
    [][HandlerRuns =>
          IF PowerOnCase
          THEN Suspends("refresh") /\ hist'.published = hist.published + 1
          ELSE IF ConnectedCase
          THEN Suspends("conn") /\ hist'.published = hist.published
          ELSE sleepers' = sleepers /\ hist'.published = hist.published + 1]_vars

C20_Witness ==
    /\ hist.last_writer = "power"
    /\ hist.last_reported = ACTIVE
    /\ hist.delivered = 1
    /\ hist.published = 1
    /\ hist.transitions = 0
    /\ hist.get_all_calls = 0
    /\ sleepers = <<>>
    /\ data # {}
    /\ TheData.device_status = ACTIVE

\* C17: every get_labels call of the coordinator is made without arguments: no
\* keyword argument, get_all in particular, has ever been passed
C17_GetLabelsWithoutArguments ==
    hist.get_labels_passed = {}

\* C19: a connection handler that was in its settle delay when shutdown began
\* never calls get_labels afterwards (and so never reaches its publication)
C19_NoLabelFetchAfterShutdown ==
    ~hist.get_labels_cancelled

\* LumagenPowerSwitch.is_on
is_on ==
    IF power.optimistic # {} THEN TRUE \in power.optimistic
    ELSE LastStatus = ACTIVE

\* C16: once a snapshot published after the switch issued its command has been
\* observed, the optimistic state is unset (is_on is then the snapshot's status),
\* also when that snapshot was observed while the command call was still awaited
C16_OptimisticClearedOnceObserved ==
    power.switch = None => (power.optimistic = {} /\ is_on = (LastStatus = ACTIVE))

\* C18: no navigation command is sent while the last published status is not
\* ACTIVE, for each command of a batch
C18_NoCommandWhileInactive ==
    ~remote.sent_inactive

\* C15: over a snapshot whose deviceInfo is None, reading any entity's value or
\* current option, and its device description, returns and raises nothing
C15_ConsumersTolerateNullInfo ==
    \A r \in consumer :
        (data # {} /\ TheData.device_info = None) => ~r.result.raised

\* C21: no event handler waits inline: no handler coroutine is ever suspended in
\* a delay or in an awaited device command
C21_NoHandlerWaitsInline ==
    \A i \in 1..Len(sleepers) : sleepers[i].kind # "conn"

\* some device command is being awaited
CallInProgress == \E i \in 1..Len(sleepers) : sleepers[i].pc = "call"

C23_PublicationIsDeviceManagerState ==
    [][hist'.published > hist.published =>
          data' = {[device_info |-> dm'.device_info,
                    is_connected |-> dm'.is_connected,
                    is_alive |-> dm'.is_alive,
                    device_status |-> dm'.device_status]}]_vars

\* C23 (amended): every publication replaces the snapshot by one whose deviceInfo,
\* isConnected and isAlive are the device manager's values at that instant; its
\* deviceStatus is the device manager's too, except in the publication of a
\* device_status handler, where it is the value the event reported
C23_PublicationIsFullReplace ==
    [][hist'.published > hist.published =>
          data' = {[device_info |-> dm'.device_info,
                    is_connected |-> dm'.is_connected,
                    is_alive |-> dm'.is_alive,
                    device_status |->
                        IF hist'.last_writer = "power" THEN hist'.last_reported
                        ELSE dm'.device_status]}]_vars

C23_Witness ==
    /\ hist.published = 2
    /\ hist.last_writer = "attr"
    /\ dm.device_info = "info_a"
    /\ data = {ReadDeviceManager(dm)}
    /\ ~dm.is_connected

\* a shutdown call has run to its end
ShutdownDone == shut.begun > 0 /\ shut.pc = "idle"

\* C24 as stated: shutdown calls unregister for every recorded pair, whether or
\* not one of the calls fails, closes the device manager also without
\* unregistration support, raises nothing, and with unregistration support leaves
\* no handler registered
C24_ShutdownUnregistersAndCloses ==
    shut.begun > 0 =>
        /\ hasUnregister => \A n \in EventNames : shut.unregistered[n] >= 1
        /\ shut.close_calls >= 1
        /\ ~shut.raised
        /\ hasUnregister => registered = {}

\* C24 (amended): as above, but the handlers left registered under unregistration
\* support are those whose unregister call failed, and only those can remain
C24_ShutdownUnregistersAllItCan ==
    shut.begun > 0 =>
        /\ hasUnregister => \A n \in EventNames : shut.unregistered[n] >= 1
        /\ shut.close_calls >= 1
        /\ ~shut.raised
        /\ hasUnregister => registered \subseteq shut.failed
        /\ ~hasUnregister => \A n \in EventNames : shut.unregistered[n] = 0

C24_Witness ==
    /\ ShutdownDone
    /\ hasUnregister
    /\ shut.failed = {"is_alive"}
    /\ registered = {"is_alive"}
    /\ event_listeners = <<>>
    /\ shut.close_calls = 1

\* C25: until shutdown, each of the ten event names of the vocabulary has its
\* handler registered, and the recorded list holds exactly one pair per name
C25_OneHandlerPerEventName ==
    shut.begun = 0 =>
        LET vocabulary ==
                {"device_status", "input_labels", "physical_input_selected",
                 "current_source_content_aspect", "detected_source_aspect",
                 "source_mode", "source_vertical_rate", "source_dynamic_range",
                 "is_alive", "connection_state"}
        IN  /\ registered = vocabulary
            /\ Len(event_listeners) = Cardinality(vocabulary)
            /\ Cardinality(vocabulary) = 10
            /\ \A n \in vocabulary :
                    Cardinality({i \in 1..Len(event_listeners) :
                                    event_listeners[i] = n}) = 1

C25_Witness ==
    /\ shut.begun = 0
    /\ hist.published = 2
    /\ Quiescent
    /\ registered = EventNames
    /\ Len(event_listeners) = 10

\* C27: when the switch's awaited command fails, the failure is re-raised and the
\* optimistic state is unset, so is_on is the snapshot's status; when it succeeds
\* the optimistic state becomes the commanded value; and the optimistic state is
\* never set to a value except by a command call that has just returned
C27_SwitchFailurePropagates ==
    /\ [][(power.pc = "await" /\ power'.pc = "idle") =>
            IF power'.outcome = "raise"
            THEN /\ power'.raised
                 /\ power'.optimistic = {}
                 /\ is_on' <=> (LastStatus' = ACTIVE)
            ELSE /\ ~power'.raised
                 /\ power'.optimistic = {power.cmd = "power_on"}]_vars
    /\ [][(power'.optimistic # power.optimistic /\ power'.optimistic # {}) =>
            (power.pc = "await" /\ power'.pc = "idle" /\ power'.outcome = "ok")]_vars

C27_Witness ==
    /\ power.pc = "idle"
    /\ power.switch = "standby"
    /\ power.cmd = "standby"
    /\ power.outcome = "raise"
    /\ power.raised
    /\ power.optimistic = {}
    /\ hist.delivered = 0
    /\ LastStatus = ACTIVE
    /\ is_on

\* C28: once every handler has run, at least as many delayed refreshes have been
\* scheduled as the device has powered on (STANDBY to ACTIVE, reported by its
\* device_status event, the snapshot saying STANDBY at the change)
C28_EveryPowerOnRefreshes ==
    Quiescent =>
        hist.get_all_calls + Cardinality(RefreshSleeping) >= hist.power_ons

\* the values observable through the published snapshot: its three flags and the
\* contents of the DeviceInfo it refers to
Observable ==
    {[device_info |-> IF snapshot.device_info = None THEN {}
                      ELSE {[logical_input |-> info_logical_input(snapshot)]},
      is_connected |-> snapshot.is_connected,
      is_alive |-> snapshot.is_alive,
      device_status |-> snapshot.device_status] : snapshot \in data}

\* C26: the values observable through a published snapshot never change; later
\* state shows only through a newly published snapshot
C26_PublishedSnapshotIsImmutable ==
    [][hist'.published = hist.published => Observable' = Observable]_vars

\* C29: after a label is selected (index i sent) and the device reports
\* logical_input = i, current_option of the input-source select is that label
C29_InputSelectionRoundTrips ==
    \A r \in select, c \in consumer :
        (/\ c.entity = <<"select", "input_source">>
         /\ c.property = "value"
         /\ ~r.raised
         /\ Len(r.sent) = 1
         /\ dm.logical_input = {r.sent[1]}) =>
            c.result = Returned({r.option})

\* C30: selecting any option the input-source select offers makes exactly one
\* selectInput call, the default options included
C30_EveryOfferedOptionSelects ==
    \A r \in select :
        r.option \in get_input_source_options(source_list) => Len(r.sent) = 1

\* C31: the remote, the selects and the status sensors are available iff the last
\* update succeeded, the snapshot is connected and its status is ACTIVE; the power
\* switch and the diagnostic sensors iff the last update succeeded and the
\* snapshot is connected
C31_AvailabilityFollowsSnapshot ==
    \A c \in consumer :
        c.property = "available" =>
            LET statusFree ==
                    \/ c.entity = <<"switch", "power">>
                    \/ c.entity \in {<<"sensor", "model_name">>,
                                     <<"sensor", "software_revision">>,
                                     <<"sensor", "model_number">>,
                                     <<"sensor", "serial_number">>}
            IN  c.result =
                    Returned({/\ c.last_update_success
                              /\ \A snapshot \in data :
                                    /\ snapshot.is_connected
                                    /\ statusFree \/ snapshot.device_status = ACTIVE})

C31_Witness ==
    \E c \in consumer :
        /\ c.property = "available"
        /\ c.entity = <<"switch", "power">>
        /\ c.last_update_success
        /\ c.result = Returned({TRUE})
        /\ \A snapshot \in data : snapshot.device_status = STANDBY

\* the executor methods a command list calls when every call succeeds: MENU and
\* menu are the menu key, 7 is the seven key, anything else is no key
RECURSIVE ExpectedCalls(_)
ExpectedCalls(batch) ==
    IF batch = <<>> THEN <<>>
    ELSE (CASE Head(batch) \in {"MENU", "menu"} -> <<"menu">>
            [] Head(batch) = "7" -> <<"seven">>
            [] OTHER -> <<>>) \o ExpectedCalls(Tail(batch))

\* C32: for a batch issued while the status is ACTIVE, the known commands are
\* called in list order, one at a time, matched whatever their case; an unknown
\* command is skipped and the rest still sent; a failing command ends the batch
\* and the failure reaches the caller
C32_BatchInOrderSkipUnknownAbortOnFailure ==
    /\ [](remote.requested /\ remote.start_status = ACTIVE =>
            LET expected == ExpectedCalls(remote.batch)
            IN  /\ Len(remote.sent) <= Len(expected)
                /\ remote.sent = SubSeq(expected, 1, Len(remote.sent))
                /\ (remote.pc = "idle" /\ ~remote.raised) => remote.sent = expected
                /\ remote.raised => remote.pc = "idle" /\ remote.sent # <<>>)
    /\ [][/\ (remote.pc = "call" /\ remote'.pc = "idle") => remote'.raised
          /\ (remote.pc = "call" /\ remote'.pc = "sleep") =>
                (~remote'.raised /\ remote'.sent = remote.sent)
          /\ (remote.raised /\ remote'.raised) => remote'.sent = remote.sent
          /\ Len(remote'.sent) <= Len(remote.sent) + 1]_vars

C32_Witness ==
    /\ remote.requested
    /\ remote.start_status = ACTIVE
    /\ remote.batch = <<"bogus", "MENU">>
    /\ remote.sent = <<"menu">>
    /\ remote.pc = "idle"
    /\ ~remote.raised

\* no setup or unload call is in progress
EntryAtRest == entry.pc \in {"new", "failed", "loaded", "unloaded"}

\* C33: between calls, the entry id is in the registry iff its setup completed and
\* it has not been successfully unloaded; a successful unload has shut the
\* coordinator down exactly once, a failed one not at all
C33_RegistryLifecycle ==
    EntryAtRest =>
        /\ ENTRY_ID \in entry.registry <=> entry.pc = "loaded"
        /\ entry.pc = "unloaded" => (shut.begun = 1 /\ shut.close_calls = 1)
        /\ entry.pc = "loaded" => shut.begun = 0

\* C34: when setup has ended with the not-ready error, no device manager opened
\* by a setup is still open and no coordinator or listener exists; a coordinator
\* is only ever created with a connected device manager
C34_FailedSetupLeavesNothingOpen ==
    /\ (entry.pc = "failed" /\ entry.result = "not_ready") =>
            /\ entry.open_managers = 0
            /\ entry.coordinators = 0
            /\ registered = {}
            /\ event_listeners = <<>>
    /\ (entry.coordinators > 0 /\ entry.pc = "refresh") => dm.is_connected

====
